---- MODULE Spec2Model ----
(***************************************************************************)
(* Verification model of the Woo-Analytics order / stock / metrics         *)
(* pipeline.                                                               *)
(*                                                                         *)
(*   SpecStock    the TTL stock cache of                                   *)
(*                raspberry_pi_package/utils/woocommerce_client.py         *)
(*                (get_stock_quantities_batch)                             *)
(*   SpecChunks   the same cache, with the history of failed chunk         *)
(*                requests                                                 *)
(*   SpecOrders   the paginated, concurrent get_orders of the same file    *)
(*   SpecMetrics  order normalisation (process_orders_to_df of both        *)
(*                clients) followed by DataProcessor.calculate_metrics     *)
(*   SpecResolve  the stock resolution of one product batch                *)
(*                (fetch_product_batch and its two helpers)                *)
(*   SpecCac      DataProcessor.calculate_cac_metrics with its ad-spend    *)
(*                provider                                                 *)
(*   SpecAdapters calculate_total_ad_spend of GoogleAnalyticsClient and    *)
(*                GoogleAdsClient                                          *)
(*   SpecLock     the accesses of both clients to their stock cache and    *)
(*                the cache lock                                           *)
(*   SpecPools    the worker pools of get_orders and                       *)
(*                get_stock_quantities_batch                               *)
(*   SpecSession  the session-cached get_orders of                         *)
(*                utils/woocommerce_client.py                              *)
(*   SpecMonitor  NotificationHandler.monitor_orders over that get_orders  *)
(*                                                                         *)
(* Money is counted in integer minor units; absent values (Python None)    *)
(* are the integer None.                                                   *)
(***************************************************************************)
EXTENDS Integers, Sequences, FiniteSets, TLC

VARIABLES
    \* ---- stock cache (SpecStock) ----
    now,              \* wall clock, seconds (datetime.now())
    stock_cache,      \* self.stock_cache: product id -> quantity
    cache_timestamp,  \* self.cache_timestamp: None or the time of the last fetch
    fetched_at,       \* history: product id -> time of its last resolution by the API
    last_call,        \* history: the last get_stock_quantities_batch call and its result
    failed_ids,       \* history (SpecChunks): the ids whose last chunk request failed
    \* ---- get_orders (SpecOrders) ----
    o_pc,             \* "idle", "pool" (inside the executor block) or "done"
    o_store,          \* what the store holds for the date range of this call
    o_pending,        \* future_to_page: the pages submitted and not yet completed
    o_outcome,        \* history: request outcome of each page requested so far
    all_orders,       \* all_orders
    o_return,         \* the value get_orders returned
    o_params,         \* history: page -> the params of the request sent for it
    \* ---- normalisation and metrics (SpecMetrics) ----
    m_pc,             \* "input", "normalized" or "metrics"
    raw_orders,       \* the raw orders handed to process_orders_to_df
    normalizer,       \* which client normalised them: "pi", "utils" or "none"
    df,               \* df_orders: one row per order record
    df_products,      \* df_products: one row per line item
    metrics,          \* the outcome of DataProcessor.calculate_metrics
    m_period,         \* history: the period argument of that call
    \* ---- stock resolution inside one product batch (SpecResolve) ----
    r_pc,             \* "start", "pool" (inside the inner executor block) or "done"
    r_products,       \* the product records of the batch response: id -> record
    r_variable,       \* variable_futures not yet collected
    r_variation,      \* variation_futures not yet collected
    r_standard,       \* standard_products
    batch_results,    \* batch_results of fetch_product_batch
    r_variations,     \* history: id -> response of products/{id}/variations
    r_variation_resp, \* history: id -> response of products/{parent}/variations/{id}
    r_parent_resp,    \* history: id -> response of products/{parent}
    \* ---- customer acquisition cost (SpecCac) ----
    c_pc,             \* "input" or "done"
    c_df,             \* the order DataFrame handed to calculate_cac_metrics
    c_call,           \* history: the arguments of the call and what the provider did
    cac_metrics,      \* the dictionary calculate_cac_metrics returned
    \* ---- ad-spend adapters (SpecAdapters) ----
    a_kind,           \* "none" before construction, then "ga" or "ads"
    a_ready,          \* GA: self.client is set; Ads: self.api_ready
    a_built,          \* history: the readiness __init__ left
    a_log,            \* history: the calculate_total_ad_spend calls and their outcomes
    \* ---- cache locking (SpecLock) ----
    cache_lock,       \* self.cache_lock of the utils client: 0 (free) or the holder
    w_pc,             \* position of each worker inside get_stock_quantity
    w_key,            \* the product each worker asks for
    session_stock_cache, \* keys of st.session_state.stock_cache
    pi_pc,            \* position of the caller inside get_stock_quantities_batch
    \* ---- the two worker pools (SpecPools) ----
    po_pc,            \* get_orders: "idle", "first" (initial request) or "pool"
    po_tasks,         \* number of page tasks submitted to the executor
    po_started,       \* number of them a worker thread has taken, in submit order
    po_running,       \* the page tasks whose request is in flight
    ps_pc,            \* get_stock_quantities_batch: "idle" or "pool"
    ps_tasks,         \* number of chunk tasks submitted to the executor
    ps_started,       \* number of them a worker thread has taken
    ps_running,       \* the chunk tasks whose request is in flight
    \* ---- session-cached get_orders of the utils client ----
    s_now,            \* wall clock, seconds (datetime.now())
    order_cache,      \* st.session_state.order_cache: cache_key -> (timestamp, data)
    s_call,           \* history: the last get_orders call and what it did
    \* ---- order monitoring (SpecMonitor) ----
    n_now,            \* wall clock, seconds (datetime.now())
    n_store,          \* the orders the store holds, in the order of their creation
    n_cache,          \* st.session_state.order_cache
    n_pc,             \* monitor_orders: "idle", or "fetched" (get_orders has returned)
    n_orders,         \* orders of monitor_orders (line 121)
    notifications,    \* st.session_state.notifications
    last_check_time,  \* st.session_state.last_check_time
    n_returned        \* history: the order ids each check_new_orders call returned

stockVars == <<now, stock_cache, cache_timestamp, fetched_at, last_call, failed_ids>>

ordersVars == <<o_pc, o_store, o_pending, o_outcome, all_orders, o_return, o_params>>

metricsVars == <<m_pc, raw_orders, normalizer, df, df_products, metrics, m_period>>

resolveVars == <<r_pc, r_products, r_variable, r_variation, r_standard,
                 batch_results, r_variations, r_variation_resp, r_parent_resp>>

cacVars == <<c_pc, c_df, c_call, cac_metrics>>

adapterVars == <<a_kind, a_ready, a_built, a_log>>

lockVars == <<cache_lock, w_pc, w_key, session_stock_cache, pi_pc>>

poolVars == <<po_pc, po_tasks, po_started, po_running,
              ps_pc, ps_tasks, ps_started, ps_running>>

sessionVars == <<s_now, order_cache, s_call>>

monitorVars == <<n_now, n_store, n_cache, n_pc, n_orders, notifications, last_check_time, n_returned>>

vars == <<stockVars, ordersVars, metricsVars, resolveVars, cacVars, adapterVars, lockVars, poolVars, sessionVars, monitorVars>>

\* What the steps of one component leave alone.
notStock == <<ordersVars, metricsVars, resolveVars, cacVars, adapterVars, lockVars, poolVars, sessionVars, monitorVars>>
notOrders == <<stockVars, metricsVars, resolveVars, cacVars, adapterVars, lockVars, poolVars, sessionVars, monitorVars>>
notMetrics == <<stockVars, ordersVars, resolveVars, cacVars, adapterVars, lockVars, poolVars, sessionVars, monitorVars>>
notResolve == <<stockVars, ordersVars, metricsVars, cacVars, adapterVars, lockVars, poolVars, sessionVars, monitorVars>>
notCac == <<stockVars, ordersVars, metricsVars, resolveVars, adapterVars, lockVars, poolVars, sessionVars, monitorVars>>
notAdapter == <<stockVars, ordersVars, metricsVars, resolveVars, cacVars, lockVars, poolVars, sessionVars, monitorVars>>
notLock == <<stockVars, ordersVars, metricsVars, resolveVars, cacVars, adapterVars, poolVars, sessionVars, monitorVars>>
notPool == <<stockVars, ordersVars, metricsVars, resolveVars, cacVars, adapterVars, lockVars, sessionVars, monitorVars>>
notSession == <<stockVars, ordersVars, metricsVars, resolveVars, cacVars, adapterVars, lockVars, poolVars, monitorVars>>
notMonitor == <<stockVars, ordersVars, metricsVars, resolveVars, cacVars, adapterVars, lockVars, poolVars, sessionVars>>

None == -1

\* ------------------------------------------------------------------------
\* Bounds
\* ------------------------------------------------------------------------
MaxProducts == 2
MaxPages == 5
MaxOrders == 2
MaxVariations == 3
MaxCacOrders == 3
MaxQueries == 3
MaxWorkers == 2
MaxPoolPages == 7
MaxChunks == 4
MaxSessionPages == 3
MaxNewOrders == 2
MaxMonitorCalls == 3
MaxHours == 1

Products == 1..MaxProducts
\* The quantities the store reports: out of stock and in stock.
Qty == {0, 1}
\* The instants at which calls are made: a first fetch at 0, and the instants
\* just inside and just outside the TTL after it.
TimePoints == {0, 299, 301}

\* ------------------------------------------------------------------------
\* Python dict helpers
\* ------------------------------------------------------------------------
EmptyMap == [p \in {} |-> 0]

\* d.get(k, default)
Get(d, k, default) == IF k \in DOMAIN d THEN d[k] ELSE default

\* d.update(e)
Update(d, e) ==
    [k \in (DOMAIN d) \cup (DOMAIN e) |-> IF k \in DOMAIN e THEN e[k] ELSE d[k]]

\* All partial maps from a subset of S into T.
PartialMaps(S, T) == UNION {[D -> T] : D \in SUBSET S}

\* ------------------------------------------------------------------------
\* Stock cache: WooCommerceClient.get_stock_quantities_batch
\* ------------------------------------------------------------------------
cache_duration == 300
batch_size == 100

\* The batches of lines 163-165: list(product_ids) cut every batch_size ids.
\* IdList is the list in iteration order (here: ascending id).
RECURSIVE IdList(_)
IdList(ids) ==
    IF ids = {} THEN <<>>
    ELSE LET m == CHOOSE x \in ids : \A y \in ids : x <= y
         IN  <<m>> \o IdList(ids \ {m})

NumBatches(ids) == (Cardinality(ids) + batch_size - 1) \div batch_size

Batch(ids, b) ==
    LET l == IdList(ids)
    IN  {l[i] : i \in {j \in 1..Len(l) : (j - 1) \div batch_size = b - 1}}

\* A response of GET products?include=... is [ok, products]: the request
\* raised or returned a non-list (ok = FALSE), or it returned a list of
\* products, each a requested id with the quantity the resolution rules of
\* lines 98-155 give it.

\* fetch_product_batch: batch_results, empty when the request failed.
fetch_product_batch(batch_ids, response) ==
    IF response.ok THEN response.products ELSE EmptyMap

\* Mutant: the force refresh keeps the old entries.
ClearedCache_Kept(force_refresh, cache) == cache

\* The force_refresh branch of lines 60-64.
ClearedCache(force_refresh, cache) == IF force_refresh THEN EmptyMap ELSE cache

ClearedTimestamp(force_refresh, ts) == IF force_refresh THEN None ELSE ts

\* The cache test of line 66.
CacheIsFresh(force_refresh, ts, t) ==
    /\ ~force_refresh
    /\ ts # None
    /\ (t - ts) < cache_duration

\* The ids of the chunks whose request gave no product list (lines 89-91 and
\* 157-158).
FailedChunkIds(product_ids, responses) ==
    UNION {Batch(product_ids, b) : b \in {c \in DOMAIN responses : ~responses[c].ok}}

\* all_stock after every batch future has been merged (lines 168-176).
RECURSIVE MergeBatches(_, _, _)
MergeBatches(ids, responses, b) ==
    IF b = 0 THEN EmptyMap
    ELSE Update(MergeBatches(ids, responses, b - 1),
                fetch_product_batch(Batch(ids, b), responses[b]))

GetStockQuantitiesBatch(product_ids, force_refresh, responses) ==
    LET cache0 == ClearedCache(force_refresh, stock_cache)
        ts0    == ClearedTimestamp(force_refresh, cache_timestamp)
    IN  IF CacheIsFresh(force_refresh, ts0, now)
        THEN /\ stock_cache' = cache0
             /\ cache_timestamp' = ts0
             /\ fetched_at' = fetched_at
             /\ last_call' = [ids       |-> product_ids,
                              force     |-> force_refresh,
                              at        |-> now,
                              cleared   |-> {},
                              served    |-> "cache",
                              requested |-> {},
                              result    |-> [p \in product_ids |-> Get(cache0, p, 0)]]
        ELSE LET all_stock == MergeBatches(product_ids, responses, NumBatches(product_ids))
             IN  /\ stock_cache' = Update(cache0, all_stock)
                 /\ cache_timestamp' = now
                 /\ fetched_at' = Update(fetched_at, [p \in DOMAIN all_stock |-> now])
                 /\ last_call' = [ids       |-> product_ids,
                                  force     |-> force_refresh,
                                  at        |-> now,
                                  cleared   |-> (DOMAIN stock_cache) \ (DOMAIN cache0),
                                  served    |-> "api",
                                  requested |-> product_ids,
                                  result    |-> all_stock]

\* The ids of the batches whose request succeeded.
RECURSIVE AnsweredIds(_, _, _)
AnsweredIds(ids, failed, b) ==
    IF b = 0 THEN {}
    ELSE AnsweredIds(ids, failed, b - 1) \cup
         (IF b \in failed THEN {} ELSE Batch(ids, b))

\* One call. The store answers each batch request on its own: the requests of
\* the batches in `failed` raise or return a non-list, the others return the
\* products of `found` that the batch asked for.  With `history` the call also
\* records in failed_ids which ids it left unanswered by a failed request.
StockCallRecording(history) ==
    \E product_ids \in SUBSET Products, force_refresh \in BOOLEAN :
        /\ now' = now
        /\ UNCHANGED notStock
        /\ IF CacheIsFresh(force_refresh, cache_timestamp, now)
           THEN /\ GetStockQuantitiesBatch(product_ids, force_refresh, <<>>)
                /\ failed_ids' = failed_ids
           ELSE \E failed \in SUBSET (1..NumBatches(product_ids)) :
                \E found \in PartialMaps(
                        AnsweredIds(product_ids, failed, NumBatches(product_ids)), Qty) :
                    LET responses ==
                            [b \in 1..NumBatches(product_ids) |->
                                [ok |-> b \notin failed,
                                 products |->
                                    [p \in (DOMAIN found) \cap Batch(product_ids, b)
                                        |-> found[p]]]]
                    IN /\ GetStockQuantitiesBatch(product_ids, force_refresh, responses)
                       /\ failed_ids' =
                            IF history
                            THEN (failed_ids \ product_ids)
                                    \cup FailedChunkIds(product_ids, responses)
                            ELSE failed_ids

StockCall == StockCallRecording(FALSE)

StockCallWithHistory == StockCallRecording(TRUE)

Tick ==
    \E t \in TimePoints :
        /\ t > now
        /\ now' = t
        /\ UNCHANGED <<stock_cache, cache_timestamp, fetched_at, last_call, failed_ids>>
        /\ UNCHANGED notStock

NoCall == [ids |-> {}, force |-> FALSE, at |-> 0, cleared |-> {}, served |-> "none",
           requested |-> {}, result |-> EmptyMap]

StockInit ==
    /\ now = 0
    /\ stock_cache = EmptyMap
    /\ cache_timestamp = None
    /\ fetched_at = EmptyMap
    /\ last_call = NoCall
    /\ failed_ids = {}

\* ------------------------------------------------------------------------
\* Paginated order fetch: WooCommerceClient.get_orders
\* ------------------------------------------------------------------------
per_page == 100

\* The size of the last page of a non-empty result.
LastPageSizes == {37, 100}

\* What the store holds for the date range: total_pages pages (the value of
\* X-WP-TotalPages; 0 for an empty range), all full but the last one.
Stores ==
    {[total_pages |-> 0, last |-> 0]} \cup
    {[total_pages |-> n, last |-> l] : n \in 1..MaxPages, l \in LastPageSizes}

PageSize(store, page_num) ==
    IF page_num < store.total_pages THEN per_page
    ELSE IF page_num = store.total_pages THEN store.last
    ELSE 0

\* The orders of one page, each order named by its position in the result set.
PageData(store, page_num) ==
    [i \in 1..PageSize(store, page_num) |-> (page_num - 1) * per_page + i]

\* How a page request ends: a list, an exception, or a payload that is no list.
Outcomes == {"ok", "exception", "nonlist"}

\* fetch_page (lines 376-399): the page's orders, or [] when the request failed.
fetch_page(store, page_num, outcome) ==
    IF outcome = "ok" THEN PageData(store, page_num) ELSE <<>>

\* Mutant: the last page is left out.
remaining_pages_short(total_pages) == 2..(total_pages - 1)

\* remaining_pages (line 405).
remaining_pages(total_pages) == 2..total_pages

\* Mutant: a failed page discards what was collected.
extend_or_reset(orders, page_data) ==
    IF page_data = <<>> THEN <<>> ELSE orders \o page_data

\* all_orders.extend(page_data) (line 416).
extend(orders, page_data) == orders \o page_data

ListReturn(orders) == [kind |-> "list", orders |-> orders]

NotReturned == [kind |-> "none", orders |-> <<>>]

\* The value of a parameter a request does not carry.
NoStatus == "absent"

\* params of the first request (lines 348-353).
first_params ==
    [after |-> "start_date_utc", before |-> "end_date_utc", per_page |-> per_page,
     page |-> 1, status |-> NoStatus]

\* params of fetch_page (lines 378-384).
page_params(page_num) ==
    [after |-> "start_date_utc", before |-> "end_date_utc", per_page |-> per_page,
     page |-> page_num, status |-> "any"]

\* get_orders up to the executor block: the first request and what follows
\* from its answer (lines 332-409).
GetOrdersStart ==
    /\ o_pc = "idle"
    /\ UNCHANGED notOrders
    /\ \E store \in Stores, first \in Outcomes :
        /\ o_store' = store
        /\ o_outcome' = (1 :> first)
        /\ o_params' = (1 :> first_params)
        /\ IF first # "ok"
           THEN \* line 360 (no list) or line 432 (exception): return []
                /\ o_pc' = "done"
                /\ o_pending' = {}
                /\ all_orders' = <<>>
                /\ o_return' = ListReturn(<<>>)
           ELSE IF store.total_pages <= 1
           THEN \* line 370: return data
                /\ o_pc' = "done"
                /\ o_pending' = {}
                /\ all_orders' = PageData(store, 1)
                /\ o_return' = ListReturn(PageData(store, 1))
           ELSE /\ o_pc' = "pool"
                /\ o_pending' = remaining_pages(store.total_pages)
                /\ all_orders' = PageData(store, 1)
                /\ o_return' = NotReturned

\* One future completes and the as_completed loop merges it (lines 412-423).
\* The pages complete in any order.
PageCompletes ==
    /\ o_pc = "pool"
    /\ UNCHANGED notOrders
    /\ \E page_num \in o_pending, outcome \in Outcomes :
        /\ o_pending' = o_pending \ {page_num}
        /\ o_outcome' = (page_num :> outcome) @@ o_outcome
        /\ o_params' = (page_num :> page_params(page_num)) @@ o_params
        /\ all_orders' = extend(all_orders, fetch_page(o_store, page_num, outcome))
        /\ UNCHANGED <<o_pc, o_store, o_return>>

\* Every future has completed: return all_orders (line 428).
GetOrdersReturn ==
    /\ o_pc = "pool"
    /\ o_pending = {}
    /\ UNCHANGED notOrders
    /\ o_pc' = "done"
    /\ o_return' = ListReturn(all_orders)
    /\ UNCHANGED <<o_store, o_pending, o_outcome, all_orders, o_params>>

\* The caller has the result; the client is ready for the next call.
GetOrdersDone ==
    /\ o_pc = "done"
    /\ UNCHANGED notOrders
    /\ o_pc' = "idle"
    /\ o_store' = [total_pages |-> 0, last |-> 0]
    /\ o_pending' = {}
    /\ o_outcome' = EmptyMap
    /\ o_params' = EmptyMap
    /\ all_orders' = <<>>
    /\ o_return' = NotReturned

OrdersInit ==
    /\ o_pc = "idle"
    /\ o_store = [total_pages |-> 0, last |-> 0]
    /\ o_pending = {}
    /\ o_outcome = EmptyMap
    /\ all_orders = <<>>
    /\ o_return = NotReturned
    /\ o_params = EmptyMap

\* ------------------------------------------------------------------------
\* Order normalisation: process_orders_to_df of both clients
\* ------------------------------------------------------------------------

\* A decimal string of the API ("80.00"), and a string float() rejects.
Str(n) == [ok |-> TRUE, value |-> n]
BadStr == [ok |-> FALSE, value |-> 0]

\* float(x): the number, defined only where ok.
float(x) == x.value

\* A timestamp is <<day of the year 2024, hour>>; a missing or empty
\* date_created is <<>>.
NoDate == <<>>

\* tz_localize('UTC').tz_convert('Europe/Oslo') in winter: one hour later.
ToOslo(utc) ==
    IF utc[2] + 1 >= 24 THEN <<utc[1] + 1, utc[2] + 1 - 24>> ELSE <<utc[1], utc[2] + 1>>

\* Raw line items: one discounted item with a cost, one whose cost is no number.
ItemA == [subtotal |-> Str(100), total |-> Str(80), total_tax |-> Str(20),
          quantity |-> 2, cost_meta |-> <<Str(30)>>]
ItemB == [subtotal |-> Str(40), total |-> Str(40), total_tax |-> Str(10),
          quantity |-> 1, cost_meta |-> <<BadStr>>]
ShipS == [total |-> Str(80), total_tax |-> Str(20)]

RECURSIVE SeqSum(_)
SeqSum(seq) == IF seq = <<>> THEN 0 ELSE Head(seq) + SeqSum(Tail(seq))

\* The raw orders of the API: the order total and total_tax are what the store
\* computes from the lines.
RawOrders ==
    {[date_created   |-> d,
      status         |-> st,
      line_items     |-> li,
      shipping_lines |-> sh,
      total_tax      |-> Str(SeqSum([i \in 1..Len(li) |-> li[i].total_tax.value])
                           + SeqSum([i \in 1..Len(sh) |-> sh[i].total_tax.value])),
      total          |-> Str(SeqSum([i \in 1..Len(li) |->
                                        li[i].total.value + li[i].total_tax.value])
                           + SeqSum([i \in 1..Len(sh) |->
                                        sh[i].total.value + sh[i].total_tax.value]))] :
        d \in {NoDate, <<6, 23>>},
        st \in {"pending", "completed"},
        li \in {<<>>, <<ItemA>>, <<ItemA, ItemB>>},
        sh \in {<<>>, <<ShipS>>}}
    \cup
    \* two more orders of Saturday 6 January, placed at different hours
    {[date_created |-> <<6, h>>, status |-> "completed", line_items |-> <<ItemA>>,
      shipping_lines |-> <<>>, total_tax |-> Str(20), total |-> Str(100)] :
        h \in {8, 10}}
    \cup
    \* dated orders whose total is no number
    {[date_created |-> <<6, 23>>, status |-> st, line_items |-> <<ItemA>>,
      shipping_lines |-> <<>>, total_tax |-> Str(20), total |-> BadStr] :
        st \in {"pending", "completed"}}

\* Whether process_order gets through the order: float() of a total that is no
\* number raises, and the handler of the function returns (None, []).
Parses(order) == order.total.ok

\* get_order_status_display (pi client, lines 592-603).
status_mapping ==
    [completed |-> "Fullfort", processing |-> "Under behandling",
     pending |-> "Venter", cancelled |-> "Kansellert", refunded |-> "Refundert",
     failed |-> "Mislykket"] @@ ("on-hold" :> "Pa vent")

get_order_status_display(status) == Get(status_mapping, status, status)

\* The cost of a line item (lines 518-525): the first _yith_cog_item_cost
\* meta value, 0 when there is none or when it is no number.
ItemCost(item) ==
    IF item.cost_meta = <<>> THEN 0
    ELSE IF item.cost_meta[1].ok THEN float(item.cost_meta[1]) ELSE 0

\* process_order of the pi client (lines 458-548): the order record, or <<>>
\* (None) for an order without a date.
pi_order_info(order) ==
    IF order.date_created = NoDate \/ ~Parses(order) THEN <<>>
    ELSE LET shipping_base == SeqSum([i \in 1..Len(order.shipping_lines) |->
                                        float(order.shipping_lines[i].total)])
             shipping_tax  == SeqSum([i \in 1..Len(order.shipping_lines) |->
                                        float(order.shipping_lines[i].total_tax)])
         IN <<[date           |-> ToOslo(order.date_created),
               status         |-> get_order_status_display(order.status),
               total          |-> float(order.total),
               subtotal       |-> SeqSum([i \in 1..Len(order.line_items) |->
                                            float(order.line_items[i].subtotal)]),
               shipping_base  |-> shipping_base,
               shipping_total |-> shipping_base + shipping_tax,
               shipping_tax   |-> shipping_tax,
               tax_total      |-> float(order.total_tax)]>>

pi_products(order) ==
    IF order.date_created = NoDate \/ ~Parses(order) THEN <<>>
    ELSE [i \in 1..Len(order.line_items) |->
            LET item == order.line_items[i]
            IN  [date     |-> ToOslo(order.date_created),
                 quantity |-> item.quantity,
                 total    |-> float(item.total) + float(item.total_tax),
                 subtotal |-> float(item.subtotal),
                 tax      |-> float(item.total_tax),
                 cost     |-> ItemCost(item) * item.quantity]]

\* _process_single_order of the utils client (lines 160-203).
utils_order_info(order) ==
    IF order.date_created = NoDate \/ ~Parses(order) THEN <<>>
    ELSE <<[date           |-> ToOslo(order.date_created),
            status         |-> order.status,
            total          |-> float(order.total),
            subtotal       |-> SeqSum([i \in 1..Len(order.line_items) |->
                                         float(order.line_items[i].subtotal)]),
            shipping_total |-> SeqSum([i \in 1..Len(order.shipping_lines) |->
                                         float(order.shipping_lines[i].total)]),
            tax_total      |-> float(order.total_tax)]>>

utils_products(order) ==
    IF order.date_created = NoDate \/ ~Parses(order) THEN <<>>
    ELSE [i \in 1..Len(order.line_items) |->
            LET item == order.line_items[i]
            IN  [date     |-> ToOslo(order.date_created),
                 quantity |-> item.quantity,
                 total    |-> float(item.total) + float(item.total_tax)]]

\* Mutant: the first order without a date ends the batch.
RECURSIVE Rows_UntilUndated(_, _, _)
Rows_UntilUndated(client, orders, part) ==
    IF orders = <<>> \/ Head(orders).date_created = NoDate THEN <<>>
    ELSE (IF client = "pi"
          THEN (IF part = "orders" THEN pi_order_info(Head(orders))
                                   ELSE pi_products(Head(orders)))
          ELSE (IF part = "orders" THEN utils_order_info(Head(orders))
                                   ELSE utils_products(Head(orders))))
         \o Rows_UntilUndated(client, Tail(orders), part)

\* The rows collected from every order (the lists the DataFrames are built of).
RECURSIVE Rows(_, _, _)
Rows(client, orders, part) ==
    IF orders = <<>> THEN <<>>
    ELSE (IF client = "pi"
          THEN (IF part = "orders" THEN pi_order_info(Head(orders))
                                   ELSE pi_products(Head(orders)))
          ELSE (IF part = "orders" THEN utils_order_info(Head(orders))
                                   ELSE utils_products(Head(orders))))
         \o Rows(client, Tail(orders), part)

\* ------------------------------------------------------------------------
\* Aggregation: DataProcessor.calculate_metrics
\* ------------------------------------------------------------------------

\* The columns of a DataFrame built from a list of records.
Columns(frame) == IF frame = <<>> THEN {} ELSE DOMAIN frame[1]

\* frame[column].sum()
ColumnSum(frame, column) == SeqSum([i \in 1..Len(frame) |-> frame[i][column]])

\* The snapshot of lines 13-23 and 30-40.
ZeroMetrics ==
    [total_revenue_incl_vat |-> 0, total_revenue_excl_vat |-> 0,
     average_revenue |-> <<0, 1>>, shipping_total |-> 0, total_tax |-> 0,
     total_profit |-> 0, profit_margin |-> <<0, 1>>, total_cogs |-> 0,
     order_count |-> 0]

\* strftime('%U') for a day of 2024 (1 January is a Monday): the week of the
\* year, weeks starting on Sunday, the days before the first Sunday (7 January)
\* being week 0.
WeekU(day) == day \div 7

\* strftime('%m') for a day of January or February 2024.
Month(day) == IF day <= 31 THEN 1 ELSE 2

\* The key the rows are grouped by (lines 64-71): the date column itself for
\* daily, else the formatted period.
PeriodKey(date, period) ==
    IF period = "weekly" THEN <<WeekU(date[1])>>
    ELSE IF period = "monthly" THEN <<Month(date[1])>>
    ELSE date

Periods == {"daily", "weekly", "monthly"}

\* total_revenue_excl_vat (line 56).
revenue_excl_vat(frame) == ColumnSum(frame, "subtotal")

\* order_count (line 50).
order_count(frame) ==
    Cardinality({i \in 1..Len(frame) : frame[i].status # "pending"})

\* calculate_metrics: [kind |-> "value", value |-> the snapshot], or
\* [kind |-> "KeyError"] when a column it reads is missing. A quotient is kept
\* as <<numerator, denominator>>.
calculate_metrics(frame, products, period) ==
    IF frame = <<>> THEN [kind |-> "value", value |-> ZeroMetrics]
    ELSE IF "date" \notin Columns(frame) THEN [kind |-> "value", value |-> ZeroMetrics]
    ELSE IF {"shipping_base", "shipping_tax", "tax_total", "status", "total", "subtotal"}
                \subseteq Columns(frame)
    THEN LET total_cost == IF "cost" \in Columns(products)
                           THEN ColumnSum(products, "cost") ELSE 0
             shipping_base == ColumnSum(frame, "shipping_base")
             shipping_tax == ColumnSum(frame, "shipping_tax")
             total_revenue_excl_vat == revenue_excl_vat(frame)
             total_profit == total_revenue_excl_vat - total_cost
             groups == {PeriodKey(frame[i].date, period) : i \in 1..Len(frame)}
         IN [kind |-> "value",
             value |->
               [total_revenue_incl_vat |-> ColumnSum(frame, "total"),
                total_revenue_excl_vat |-> total_revenue_excl_vat,
                average_revenue |-> <<ColumnSum(frame, "total"), Cardinality(groups)>>,
                shipping_total |-> shipping_base + shipping_tax,
                shipping_costs |-> shipping_base,
                total_tax |-> ColumnSum(frame, "tax_total"),
                total_profit |-> total_profit,
                profit_margin |-> IF total_revenue_excl_vat > 0
                                  THEN <<total_profit * 100, total_revenue_excl_vat>>
                                  ELSE <<0, 1>>,
                total_cogs |-> total_cost,
                order_count |-> order_count(frame)]]
    ELSE [kind |-> "KeyError", value |-> ZeroMetrics]

NoMetrics == [kind |-> "none", value |-> ZeroMetrics]

\* The store returns one more raw order.
AddRawOrder ==
    /\ m_pc = "input"
    /\ Len(raw_orders) < MaxOrders
    /\ \E order \in RawOrders : raw_orders' = Append(raw_orders, order)
    /\ UNCHANGED <<m_pc, normalizer, df, df_products, metrics, m_period>>
    /\ UNCHANGED notMetrics

\* process_orders_to_df of either client.
ProcessOrdersToDf ==
    /\ m_pc = "input"
    /\ \E client \in {"pi", "utils"} :
        /\ normalizer' = client
        /\ df' = Rows(client, raw_orders, "orders")
        /\ df_products' = Rows(client, raw_orders, "products")
    /\ m_pc' = "normalized"
    /\ UNCHANGED <<raw_orders, metrics, m_period>>
    /\ UNCHANGED notMetrics

\* DataProcessor.calculate_metrics(df, df_products, period).
CalculateMetrics ==
    /\ m_pc = "normalized"
    /\ \E period \in Periods :
        /\ metrics' = calculate_metrics(df, df_products, period)
        /\ m_period' = period
    /\ m_pc' = "metrics"
    /\ UNCHANGED <<raw_orders, normalizer, df, df_products>>
    /\ UNCHANGED notMetrics

MetricsInit ==
    /\ m_pc = "input"
    /\ raw_orders = <<>>
    /\ normalizer = "none"
    /\ df = <<>>
    /\ df_products = <<>>
    /\ metrics = NoMetrics
    /\ m_period = "none"

MetricsNext == AddRawOrder \/ ProcessOrdersToDf \/ CalculateMetrics

\* ------------------------------------------------------------------------
\* Stock resolution of one batch: fetch_product_batch and its two helpers
\* ------------------------------------------------------------------------
ResolveIds == {1, 2}
ParentIds == {0, 12}
ProductRecords ==
    [type : {"simple", "variable"}, parent_id : ParentIds, stock_quantity : {None, 0, 4}]

\* Sequences over S of length at most n.
SeqsUpTo(S, n) == UNION {[1..k -> S] : k \in 0..n}

\* The responses of products/{pid}/variations: the request raises, the body
\* is no list, or it is the list of the variations' stock_quantity values.
VariationsResponses ==
    {[kind |-> "raises", stocks |-> <<>>], [kind |-> "other", stocks |-> <<>>]}
        \cup {[kind |-> "list", stocks |-> l] : l \in SeqsUpTo({None, 3, 5}, MaxVariations)}

\* The responses of a single-record request: it raises, the body is no dict,
\* or it is a record with this stock_quantity.
RecordResponses ==
    {[kind |-> "raises", stock |-> None], [kind |-> "other", stock |-> None]}
        \cup {[kind |-> "dict", stock |-> q] : q \in {None, 0, 12}}
NotAsked == [kind |-> "notasked", stock |-> None]

\* Mutant: a null variation stock is counted as one unit.
OrZero_One(x) == IF x = None THEN 1 ELSE x

\* x or 0
OrZero(x) == IF x = None THEN 0 ELSE x

\* Mutant: the exception handler hands on the null stock instead of 0.
fetch_variable_product_stock_null(response) ==
    IF response.kind = "raises" THEN None
    ELSE IF response.kind = "list" /\ response.stocks # <<>>
    THEN SeqSum([i \in 1..Len(response.stocks) |-> OrZero(response.stocks[i])])
    ELSE 0

\* _fetch_variable_product_stock, given the response of the variations request.
fetch_variable_product_stock(response) ==
    IF response.kind = "list" /\ response.stocks # <<>>
    THEN SeqSum([i \in 1..Len(response.stocks) |-> OrZero(response.stocks[i])])
    ELSE 0

\* Whether _fetch_variation_product_stock goes on to the parent request.
AsksParent(variation) ==
    /\ variation.kind # "raises"
    /\ ~(variation.kind = "dict" /\ variation.stock # None)

\* Mutant: the parent's stock is ignored.
parent_stock_ignored(parent) == 0

\* parent_product.get('stock_quantity', 0) or 0; a body without .get raises.
parent_stock(parent) == IF parent.kind = "dict" THEN OrZero(parent.stock) ELSE 0

\* _fetch_variation_product_stock, given the responses of its two requests.
fetch_variation_product_stock(variation, parent) ==
    IF variation.kind = "raises" THEN 0
    ELSE IF variation.kind = "dict" /\ variation.stock # None THEN variation.stock
    ELSE IF parent.kind = "raises" THEN 0
    ELSE parent_stock(parent)

\* The categories of lines 97-115.
HasDirectStock(product) == product.stock_quantity # None
IsVariable(product) == ~HasDirectStock(product) /\ product.type = "variable"
IsVariation(product) ==
    ~HasDirectStock(product) /\ product.type # "variable" /\ product.parent_id # 0
IsStandard(product) ==
    ~HasDirectStock(product) /\ product.type # "variable" /\ product.parent_id = 0

\* The products request of the batch: it fails (exception or no list) and the
\* batch yields {}, or it returns records, which are sorted into categories.
ProductsResponse ==
    /\ r_pc = "start"
    /\ \/ /\ r_pc' = "done"
          /\ UNCHANGED <<r_products, r_variable, r_variation, r_standard, batch_results>>
       \/ \E D \in SUBSET ResolveIds : \E products \in [D -> ProductRecords] :
          /\ r_products' = products
          /\ batch_results' =
               [pid \in {x \in D : HasDirectStock(products[x])} |-> products[pid].stock_quantity]
          /\ r_variable' = {x \in D : IsVariable(products[x])}
          /\ r_variation' = {x \in D : IsVariation(products[x])}
          /\ r_standard' = {x \in D : IsStandard(products[x])}
          /\ r_pc' = "pool"
    /\ UNCHANGED <<r_variations, r_variation_resp, r_parent_resp>>
    /\ UNCHANGED notResolve

\* One variable future is collected (any completion order).
CollectVariable ==
    /\ r_pc = "pool"
    /\ \E pid \in r_variable : \E response \in VariationsResponses :
        /\ batch_results' = Update(batch_results, pid :> fetch_variable_product_stock(response))
        /\ r_variations' = Update(r_variations, pid :> response)
        /\ r_variable' = r_variable \ {pid}
    /\ UNCHANGED <<r_pc, r_products, r_variation, r_standard, r_variation_resp, r_parent_resp>>
    /\ UNCHANGED notResolve

\* One variation future is collected, after the variable ones.
CollectVariation ==
    /\ r_pc = "pool"
    /\ r_variable = {}
    /\ \E pid \in r_variation : \E variation \in RecordResponses :
        \E parent \in (IF AsksParent(variation) THEN RecordResponses ELSE {NotAsked}) :
            /\ batch_results' =
                 Update(batch_results, pid :> fetch_variation_product_stock(variation, parent))
            /\ r_variation_resp' = Update(r_variation_resp, pid :> variation)
            /\ r_parent_resp' = Update(r_parent_resp, pid :> parent)
            /\ r_variation' = r_variation \ {pid}
    /\ UNCHANGED <<r_pc, r_products, r_variable, r_standard, r_variations>>
    /\ UNCHANGED notResolve

\* The standard products are written and the batch returns.
StandardProducts ==
    /\ r_pc = "pool"
    /\ r_variable = {}
    /\ r_variation = {}
    /\ batch_results' =
         Update(batch_results, [pid \in r_standard |-> OrZero(r_products[pid].stock_quantity)])
    /\ r_pc' = "done"
    /\ UNCHANGED <<r_products, r_variable, r_variation, r_standard,
                   r_variations, r_variation_resp, r_parent_resp>>
    /\ UNCHANGED notResolve

ResolveInit ==
    /\ r_pc = "start"
    /\ r_products = EmptyMap
    /\ r_variable = {}
    /\ r_variation = {}
    /\ r_standard = {}
    /\ batch_results = EmptyMap
    /\ r_variations = EmptyMap
    /\ r_variation_resp = EmptyMap
    /\ r_parent_resp = EmptyMap

ResolveNext == ProductsResponse \/ CollectVariable \/ CollectVariation \/ StandardProducts

\* ------------------------------------------------------------------------
\* DataProcessor.calculate_cac_metrics
\* ------------------------------------------------------------------------

\* billing.get('email', ''): a JSON null, the default for a missing key, or
\* an address.
NullEmail == "null"
Emails == {NullEmail, "", "a@example.no", "b@example.no"}

\* The rows of the order DataFrame: with a billing dict or without one.
CacRows ==
    {[has_billing |-> FALSE, email |-> "", total |-> 100]}
        \cup {[has_billing |-> TRUE, email |-> e, total |-> 100] : e \in Emails}

\* What the ad-spend provider does in one call: construction, then
\* calculate_total_ad_spend, then calculate_campaign_performance, then the
\* reading of spend_by_date.
ProviderBehaviours ==
    [construct : {"ok", "raises"},
     spend : {"raises", "no_data", "data"},
     campaign : {"ok", "raises"},
     by_date : {"ok", "raises"},
     total_spend : {300}]

\* The steps of the try block that run; later ones are not reached after a
\* raise, and their behaviour is then immaterial.
Reached(provider) ==
    [construct |-> provider.construct,
     spend |-> IF provider.construct = "ok" THEN provider.spend ELSE "not_reached",
     campaign |-> IF provider.construct = "ok" /\ provider.spend # "raises"
                  THEN provider.campaign ELSE "not_reached",
     by_date |-> IF provider.construct = "ok" /\ provider.spend = "data"
                    /\ provider.campaign = "ok"
                 THEN provider.by_date ELSE "not_reached",
     total_spend |-> provider.total_spend]

NotRequested ==
    [construct |-> "not_reached", spend |-> "not_reached", campaign |-> "not_reached",
     by_date |-> "not_reached", total_spend |-> 0]

\* customer_data (lines 312-324): the rows that have a billing dict.
RECURSIVE customer_data(_)
customer_data(frame) ==
    IF frame = <<>> THEN <<>>
    ELSE (IF Head(frame).has_billing THEN <<Head(frame)>> ELSE <<>>)
            \o customer_data(Tail(frame))

\* groupby('Email').size(): the groups and their sizes; a null key is dropped.
EmailGroups(customers) ==
    {customers[i].email : i \in 1..Len(customers)} \ {NullEmail}
GroupSize(customers, email) ==
    Cardinality({i \in 1..Len(customers) : customers[i].email = email})

\* Mutant: a customer counts as new when it has at most two orders.
IsNewCustomer_UpToTwo(size) == size <= 2

\* order_count == 1 (line 346).
IsNewCustomer(size) == size = 1

\* len(customers_df) * ad_cost_per_order (lines 391, 398, 401).
fixed_cost(frame, customers, ad_cost_per_order) == Len(customers) * ad_cost_per_order

\* The dictionary of lines 294-309 and 326-341.
ZeroCacMetrics ==
    [cac |-> <<0, 1>>, cac_to_ltv_ratio |-> <<0, 1>>, roi |-> <<0, 1>>,
     breakeven_point |-> <<0, 1>>, new_customers_count |-> 0,
     repeat_customers_count |-> 0, total_ad_spend |-> 0, total_revenue |-> 0,
     revenue_per_customer |-> <<0, 1>>, using_ga_data |-> FALSE]

\* calculate_cac_metrics(df, ad_cost_per_order, use_ga_data), given what the
\* provider does. A quotient is kept as <<numerator, denominator>>.
calculate_cac_metrics(frame, ad_cost_per_order, use_ga_data, provider) ==
    LET customers == customer_data(frame)
    IN  IF frame = <<>> \/ customers = <<>> THEN ZeroCacMetrics
        ELSE
        LET groups == EmailGroups(customers)
            new_customers_count ==
                Cardinality({e \in groups : IsNewCustomer(GroupSize(customers, e))})
            repeat_customers_count ==
                Cardinality({e \in groups : GroupSize(customers, e) > 1})
            total_customers == new_customers_count + repeat_customers_count
            total_revenue == ColumnSum(customers, "total")
            grouped_revenue ==
                SeqSum([i \in 1..Len(customers) |->
                          IF customers[i].email = NullEmail THEN 0 ELSE customers[i].total])
            fallback == fixed_cost(frame, customers, ad_cost_per_order)
            \* the try block of lines 368-398
            reached == IF use_ga_data THEN Reached(provider) ELSE NotRequested
            assigned_ga == reached.campaign = "ok" /\ reached.spend = "data"
            raised == "raises" \in {reached.construct, reached.spend,
                                    reached.campaign, reached.by_date}
            using_ga_data == assigned_ga
            total_ad_spend == IF assigned_ga /\ ~raised THEN reached.total_spend ELSE fallback
            cac == IF new_customers_count > 0
                   THEN <<total_ad_spend, new_customers_count>> ELSE <<0, 1>>
        IN  [cac |-> cac,
             cac_to_ltv_ratio |->
                IF cac[1] > 0
                THEN <<grouped_revenue * cac[2], total_customers * cac[1]>> ELSE <<0, 1>>,
             roi |-> IF total_ad_spend > 0
                     THEN <<(total_revenue - total_ad_spend) * 100, total_ad_spend>>
                     ELSE <<0, 1>>,
             breakeven_point |->
                IF total_revenue > 0
                THEN <<cac[1] * Len(customers), cac[2] * total_revenue>> ELSE <<0, 1>>,
             new_customers_count |-> new_customers_count,
             repeat_customers_count |-> repeat_customers_count,
             total_ad_spend |-> total_ad_spend,
             total_revenue |-> total_revenue,
             revenue_per_customer |->
                IF total_customers > 0 THEN <<total_revenue, total_customers>> ELSE <<0, 1>>,
             using_ga_data |-> using_ga_data]

NoCacCall == [ad_cost_per_order |-> 0, use_ga_data |-> FALSE, provider |-> NotRequested]

\* One more order falls into the selected window.
AddCacOrder ==
    /\ c_pc = "input"
    /\ Len(c_df) < MaxCacOrders
    /\ \E row \in CacRows : c_df' = Append(c_df, row)
    /\ UNCHANGED <<c_pc, c_call, cac_metrics>>
    /\ UNCHANGED notCac

\* DataProcessor.calculate_cac_metrics(df, ad_cost_per_order, use_ga_data).
CalculateCac ==
    /\ c_pc = "input"
    /\ \E ad_cost_per_order \in {30, 60}, use_ga_data \in BOOLEAN :
        \E provider \in (IF use_ga_data /\ customer_data(c_df) # <<>>
                         THEN {Reached(b) : b \in ProviderBehaviours} ELSE {NotRequested}) :
            /\ cac_metrics' = calculate_cac_metrics(c_df, ad_cost_per_order, use_ga_data, provider)
            /\ c_call' = [ad_cost_per_order |-> ad_cost_per_order,
                          use_ga_data |-> use_ga_data, provider |-> provider]
    /\ c_pc' = "done"
    /\ UNCHANGED c_df
    /\ UNCHANGED notCac

CacInit ==
    /\ c_pc = "input"
    /\ c_df = <<>>
    /\ c_call = NoCacCall
    /\ cac_metrics = ZeroCacMetrics

CacNext == AddCacOrder \/ CalculateCac

\* ------------------------------------------------------------------------
\* The ad-spend adapters: GoogleAnalyticsClient and GoogleAdsClient
\* ------------------------------------------------------------------------

\* What a query meets: libraries or request credentials missing (Ads only),
\* an API error, a period without rows, or rows.
GaEnvironments == {"api_error", "no_rows", "rows"}
AdsEnvironments == {"libs_missing", "creds_missing", "api_error", "no_rows", "rows"}

\* The spend the rows of the period add up to.
period_spend == 300

\* A result without the key error_message.
NoErrorMessage == "(no error_message key)"

\* GoogleAnalyticsClient.get_ad_costs: None or a DataFrame. The ValueError
\* of line 290 is raised inside the try of line 129 and caught at line 292.
ga_get_ad_costs(ready, environment) ==
    IF ~ready THEN "None"
    ELSE IF environment = "rows" THEN "DataFrame"
    ELSE "None"

\* GoogleAnalyticsClient.calculate_total_ad_spend.
ga_calculate_total_ad_spend(ready, environment) ==
    IF ga_get_ad_costs(ready, environment) = "None"
    THEN [raised |-> FALSE, has_data |-> FALSE, total_spend |-> 0,
          error_message |-> NoErrorMessage]
    ELSE [raised |-> FALSE, has_data |-> TRUE, total_spend |-> period_spend,
          error_message |-> NoErrorMessage]

\* GoogleAdsClient.get_ad_costs: a DataFrame, or the exception it raises.
ads_get_ad_costs(ready, environment) ==
    IF ~ready THEN [kind |-> "ValueError", message |-> "not properly initialized"]
    ELSE IF environment = "libs_missing"
         THEN [kind |-> "ImportError", message |-> "libraries not installed"]
    ELSE IF environment = "creds_missing"
         THEN [kind |-> "ValueError", message |-> "missing credentials"]
    ELSE IF environment = "api_error"
         THEN [kind |-> "ValueError", message |-> "API error"]
    ELSE IF environment = "no_rows"
         THEN [kind |-> "ValueError", message |-> "no campaign data"]
    ELSE [kind |-> "DataFrame", message |-> ""]

\* GoogleAdsClient.calculate_total_ad_spend.
ads_calculate_total_ad_spend(ready, environment) ==
    LET costs == ads_get_ad_costs(ready, environment)
    IN  IF costs.kind = "DataFrame"
        THEN [raised |-> FALSE, has_data |-> TRUE, total_spend |-> period_spend,
              error_message |-> NoErrorMessage]
        ELSE [raised |-> FALSE, has_data |-> FALSE, total_spend |-> 0,
              error_message |-> costs.message]

\* Whether the query sends a request to the API.
IssuesRequest(kind, ready, environment) ==
    ready /\ environment \in {"api_error", "no_rows", "rows"}

\* Mutant: a failed query marks the adapter as not ready.
ready_after_query_latched(ready, result) == ready /\ result.has_data

\* The readiness after a query: get_ad_costs and calculate_total_ad_spend
\* assign neither self.client nor self.api_ready.
ready_after_query(ready, result) == ready

\* __init__ of either adapter: the credentials load or they do not.
ConstructAdapter ==
    /\ a_kind = "none"
    /\ \E kind \in {"ga", "ads"}, credentials_ok \in BOOLEAN :
        /\ a_kind' = kind
        /\ a_ready' = credentials_ok
        /\ a_built' = credentials_ok
    /\ UNCHANGED a_log
    /\ UNCHANGED notAdapter

\* GoogleAnalyticsClient.calculate_total_ad_spend(start_date, end_date).
GaQuery ==
    /\ a_kind = "ga"
    /\ Len(a_log) < MaxQueries
    /\ \E environment \in GaEnvironments :
        /\ a_log' = Append(a_log, [environment |-> environment,
                                requested |-> IssuesRequest("ga", a_ready, environment),
                                result |-> ga_calculate_total_ad_spend(a_ready, environment)])
        /\ a_ready' = ready_after_query(a_ready, ga_calculate_total_ad_spend(a_ready, environment))
    /\ UNCHANGED <<a_kind, a_built>>
    /\ UNCHANGED notAdapter

\* GoogleAdsClient.calculate_total_ad_spend(start_date, end_date).
AdsQuery ==
    /\ a_kind = "ads"
    /\ Len(a_log) < MaxQueries
    /\ \E environment \in AdsEnvironments :
        /\ a_log' = Append(a_log, [environment |-> environment,
                                requested |-> IssuesRequest("ads", a_ready, environment),
                                result |-> ads_calculate_total_ad_spend(a_ready, environment)])
        /\ a_ready' = ready_after_query(a_ready, ads_calculate_total_ad_spend(a_ready, environment))
    /\ UNCHANGED <<a_kind, a_built>>
    /\ UNCHANGED notAdapter

AdapterInit ==
    /\ a_kind = "none"
    /\ a_ready = FALSE
    /\ a_built = FALSE
    /\ a_log = <<>>

AdapterNext == ConstructAdapter \/ GaQuery \/ AdsQuery

\* ------------------------------------------------------------------------
\* Accesses to the stock caches and the cache lock
\* ------------------------------------------------------------------------
Workers == 1..MaxWorkers
Free == 0

\* The pi client creates no lock (lines 36-39): its caller never holds one.
pi_holds_lock == FALSE

\* utils client, get_stock_quantity: a worker takes the lock for the lookup
\* (line 334).
WorkerAcquireForRead ==
    /\ \E w \in Workers, product_id \in ResolveIds :
        /\ w_pc[w] = "idle"
        /\ cache_lock = Free
        /\ cache_lock' = w
        /\ w_key' = [w_key EXCEPT ![w] = product_id]
        /\ w_pc' = [w_pc EXCEPT ![w] = "read"]
    /\ UNCHANGED <<session_stock_cache, pi_pc>>
    /\ UNCHANGED notLock

\* Lines 335-339: a fresh entry is returned, else the lock is released and
\* the request is sent.
WorkerRead ==
    /\ \E w \in Workers :
        /\ w_pc[w] = "read"
        /\ cache_lock' = Free
        /\ \/ /\ w_key[w] \in session_stock_cache
              /\ w_pc' = [w_pc EXCEPT ![w] = "idle"]
           \/ w_pc' = [w_pc EXCEPT ![w] = "http"]
    /\ UNCHANGED <<w_key, session_stock_cache, pi_pc>>
    /\ UNCHANGED notLock

\* Lines 341-350: the response arrives; with a stock_quantity the worker goes
\* on to the cache update, otherwise (or on an exception) it returns None.
WorkerResponse ==
    /\ \E w \in Workers :
        /\ w_pc[w] = "http"
        /\ \/ w_pc' = [w_pc EXCEPT ![w] = "wait_write"]
           \/ w_pc' = [w_pc EXCEPT ![w] = "idle"]
    /\ UNCHANGED <<cache_lock, w_key, session_stock_cache, pi_pc>>
    /\ UNCHANGED notLock

\* Line 346: the lock is taken for the update.
WorkerAcquireForWrite ==
    /\ \E w \in Workers :
        /\ w_pc[w] = "wait_write"
        /\ cache_lock = Free
        /\ cache_lock' = w
        /\ w_pc' = [w_pc EXCEPT ![w] = "write"]
    /\ UNCHANGED <<w_key, session_stock_cache, pi_pc>>
    /\ UNCHANGED notLock

\* Lines 347-348: the entry is written, the lock released, the value returned.
WorkerWrite ==
    /\ \E w \in Workers :
        /\ w_pc[w] = "write"
        /\ session_stock_cache' = session_stock_cache \cup {w_key[w]}
        /\ cache_lock' = Free
        /\ w_pc' = [w_pc EXCEPT ![w] = "idle"]
    /\ UNCHANGED <<w_key, pi_pc>>
    /\ UNCHANGED notLock

\* pi client, get_stock_quantities_batch, as its caller steps through it:
\* "check" reads cache_timestamp and stock_cache (lines 60-69), "http" is the
\* executor block with requests in flight (lines 167-171), "write" is the
\* update of stock_cache and cache_timestamp (lines 172-179).
PiStep ==
    /\ \/ pi_pc = "idle" /\ pi_pc' = "check"
       \/ pi_pc = "check" /\ pi_pc' \in {"idle", "http"}
       \/ pi_pc = "http" /\ pi_pc' = "write"
       \/ pi_pc = "write" /\ pi_pc' \in {"http", "idle"}
    /\ UNCHANGED <<cache_lock, w_pc, w_key, session_stock_cache>>
    /\ UNCHANGED notLock

LockInit ==
    /\ cache_lock = Free
    /\ w_pc = [w \in Workers |-> "idle"]
    /\ w_key = [w \in Workers |-> 1]
    /\ session_stock_cache = {}
    /\ pi_pc = "idle"

LockNext ==
    \/ WorkerAcquireForRead
    \/ WorkerRead
    \/ WorkerResponse
    \/ WorkerAcquireForWrite
    \/ WorkerWrite
    \/ PiStep

\* ------------------------------------------------------------------------
\* The worker pools of get_orders and get_stock_quantities_batch
\* ------------------------------------------------------------------------

\* Mutant: a pool that starts a thread for every task.
max_workers_per_task(pool) == MaxPoolPages + MaxChunks

\* ThreadPoolExecutor(max_workers=5) of get_orders (line 408) and
\* ThreadPoolExecutor(max_workers=3) of get_stock_quantities_batch (line 168).
max_workers(pool) == IF pool = "orders" THEN 5 ELSE 3

\* get_orders sends the initial request for page 1 (lines 348-356).
OrdersFirstRequest ==
    /\ po_pc = "idle"
    /\ po_pc' = "first"
    /\ UNCHANGED <<po_tasks, po_started, po_running, ps_pc, ps_tasks, ps_started, ps_running>>
    /\ UNCHANGED notPool

\* The first response names total_pages; with more than one page the pages
\* 2..total_pages are submitted (lines 364-409), else the call returns.
OrdersSubmit ==
    /\ po_pc = "first"
    /\ \E total_pages \in 0..MaxPoolPages :
        IF total_pages <= 1
        THEN po_pc' = "idle" /\ UNCHANGED po_tasks
        ELSE po_pc' = "pool" /\ po_tasks' = total_pages - 1
    /\ po_started' = 0
    /\ po_running' = {}
    /\ UNCHANGED <<ps_pc, ps_tasks, ps_started, ps_running>>
    /\ UNCHANGED notPool

\* A worker thread of the executor takes the next queued page task and sends
\* its request; the executor has at most max_workers threads.
OrdersWorkerStart ==
    /\ po_pc = "pool"
    /\ po_started < po_tasks
    /\ Cardinality(po_running) < max_workers("orders")
    /\ po_started' = po_started + 1
    /\ po_running' = po_running \cup {po_started + 1}
    /\ UNCHANGED <<po_pc, po_tasks, ps_pc, ps_tasks, ps_started, ps_running>>
    /\ UNCHANGED notPool

\* The request of a page task completes (fetch_page returns).
OrdersRequestCompletes ==
    /\ po_pc = "pool"
    /\ \E task \in po_running : po_running' = po_running \ {task}
    /\ UNCHANGED <<po_pc, po_tasks, po_started, ps_pc, ps_tasks, ps_started, ps_running>>
    /\ UNCHANGED notPool

\* All page tasks are done: the executor block is left and get_orders returns.
OrdersPoolExit ==
    /\ po_pc = "pool"
    /\ po_started = po_tasks
    /\ po_running = {}
    /\ po_pc' = "idle"
    /\ UNCHANGED <<po_tasks, po_started, po_running, ps_pc, ps_tasks, ps_started, ps_running>>
    /\ UNCHANGED notPool

\* get_stock_quantities_batch submits one task per chunk (lines 163-169).
StockSubmit ==
    /\ ps_pc = "idle"
    /\ \E chunks \in 1..MaxChunks : ps_tasks' = chunks
    /\ ps_started' = 0
    /\ ps_running' = {}
    /\ ps_pc' = "pool"
    /\ UNCHANGED <<po_pc, po_tasks, po_started, po_running>>
    /\ UNCHANGED notPool

\* A worker thread takes the next chunk task and sends its products request.
StockWorkerStart ==
    /\ ps_pc = "pool"
    /\ ps_started < ps_tasks
    /\ Cardinality(ps_running) < max_workers("stock")
    /\ ps_started' = ps_started + 1
    /\ ps_running' = ps_running \cup {ps_started + 1}
    /\ UNCHANGED <<ps_pc, ps_tasks, po_pc, po_tasks, po_started, po_running>>
    /\ UNCHANGED notPool

\* fetch_product_batch of a chunk returns.
StockRequestCompletes ==
    /\ ps_pc = "pool"
    /\ \E task \in ps_running : ps_running' = ps_running \ {task}
    /\ UNCHANGED <<ps_pc, ps_tasks, ps_started, po_pc, po_tasks, po_started, po_running>>
    /\ UNCHANGED notPool

\* All chunk tasks are done: the executor block is left.
StockPoolExit ==
    /\ ps_pc = "pool"
    /\ ps_started = ps_tasks
    /\ ps_running = {}
    /\ ps_pc' = "idle"
    /\ UNCHANGED <<ps_tasks, ps_started, ps_running, po_pc, po_tasks, po_started, po_running>>
    /\ UNCHANGED notPool

\* The requests in flight.
PageRequestsInFlight == IF po_pc = "first" THEN 1 ELSE Cardinality(po_running)
ChunkRequestsInFlight == Cardinality(ps_running)

PoolInit ==
    /\ po_pc = "idle"
    /\ po_tasks = 0
    /\ po_started = 0
    /\ po_running = {}
    /\ ps_pc = "idle"
    /\ ps_tasks = 0
    /\ ps_started = 0
    /\ ps_running = {}

PoolNext ==
    \/ OrdersFirstRequest
    \/ OrdersSubmit
    \/ OrdersWorkerStart
    \/ OrdersRequestCompletes
    \/ OrdersPoolExit
    \/ StockSubmit
    \/ StockWorkerStart
    \/ StockRequestCompletes
    \/ StockPoolExit

\* ------------------------------------------------------------------------
\* Session-cached order fetch: WooCommerceClient.get_orders of
\* utils/woocommerce_client.py
\* ------------------------------------------------------------------------
cache_timeout == 3600
max_retries == 3

\* The date range asked for (cache_key, line 102).
DateRanges == {1}

\* The instants at which calls are made: a first call at 0, and the instants
\* just inside the cache timeout and at it.
SessionTimes == {0, 3599, 3600}

\* What the store holds for a date range.
SessionStores ==
    {[total_pages |-> 0, last |-> 0]} \cup
    {[total_pages |-> n, last |-> l] : n \in 1..MaxSessionPages, l \in LastPageSizes}

\* How the attempts of one _fetch_orders_batch call can end, first to last.
AttemptSeqs ==
    {<<"ok">>, <<"exception", "ok">>, <<"nonlist">>,
     <<"exception", "exception", "exception">>}

\* _fetch_orders_batch (lines 75-86): the answer of the first attempt that
\* raises nothing ([] when it is no list), [] after max_retries exceptions.
RECURSIVE fetch_orders_batch(_, _, _, _)
fetch_orders_batch(store, page, attempts, attempt) ==
    IF attempt > max_retries \/ attempt > Len(attempts) THEN <<>>
    ELSE IF attempts[attempt] = "ok" THEN PageData(store, page)
    ELSE IF attempts[attempt] = "nonlist" THEN <<>>
    ELSE fetch_orders_batch(store, page, attempts, attempt + 1)

\* Whether a request got no list from the store at all.
RequestFailed(attempts) ==
    \A i \in 1..Len(attempts) : i <= max_retries => attempts[i] # "ok"

NoCachedData == [hit |-> FALSE, data |-> <<>>]

\* _get_cached_data (lines 56-68): the cached data, or None.
get_cached_data(cache, key, at) ==
    IF key \in DOMAIN cache /\ at - cache[key].timestamp < cache_timeout
    THEN [hit |-> TRUE, data |-> cache[key].data]
    ELSE NoCachedData

\* "if cached_orders:" (line 104): None and the empty list are both false.
Truthy(cached) == cached.hit /\ cached.data # <<>>

\* _set_cached_data (lines 70-73).  The field failed is history: whether a
\* request of the call that assembled the data got no list.
set_cached_data(cache, key, data, at, failed) ==
    (key :> [timestamp |-> at, data |-> data, failed |-> failed]) @@ cache

\* total_pages of line 125.
utils_total_pages(first_batch) == (Len(first_batch) \div 100) + 1

\* The orders in which the futures of n batches can complete.
CompletionOrders(n) ==
    {order \in [1..n -> 1..n] : \A i, j \in 1..n : order[i] = order[j] => i = j}

\* all_orders after the as_completed loop (lines 141-145).
RECURSIVE Collect(_, _)
Collect(fetched, order) ==
    IF order = <<>> THEN <<>>
    ELSE fetched[Head(order)] \o Collect(fetched, Tail(order))

NoSessionCall ==
    [served |-> "none", key |-> 0, at |-> 0, store |-> [total_pages |-> 0, last |-> 0],
     requests |-> <<>>, failed |-> FALSE, entry_timestamp |-> 0, entry_failed |-> FALSE,
     cached |-> FALSE, result |-> <<>>]

\* One get_orders call (lines 88-158).  The record s_call keeps what it did:
\* the pages it requested in submission order, whether a request failed,
\* whether it stored its result, and for an answer from the cache the
\* timestamp and the history of the entry.
SessionGetOrders ==
    /\ UNCHANGED notSession
    /\ UNCHANGED s_now
    /\ \E cache_key \in DateRanges :
        LET cached_orders == get_cached_data(order_cache, cache_key, s_now)
        IN IF Truthy(cached_orders)
           THEN \* lines 104-105
                /\ s_call' = [NoSessionCall EXCEPT
                                 !.served = "cache", !.key = cache_key, !.at = s_now,
                                 !.entry_timestamp = order_cache[cache_key].timestamp,
                                 !.entry_failed = order_cache[cache_key].failed,
                                 !.result = cached_orders.data]
                /\ UNCHANGED order_cache
           ELSE \E store \in SessionStores, first \in AttemptSeqs :
                LET first_batch == fetch_orders_batch(store, 1, first, 1)
                    total_pages == utils_total_pages(first_batch)
                IN IF first_batch = <<>>
                   THEN \* lines 119-122
                        /\ s_call' = [NoSessionCall EXCEPT
                                         !.served = "api", !.key = cache_key,
                                         !.at = s_now, !.store = store,
                                         !.requests = <<1>>,
                                         !.failed = RequestFailed(first)]
                        /\ UNCHANGED order_cache
                   ELSE \E attempts \in [1..total_pages -> AttemptSeqs],
                           order \in CompletionOrders(total_pages) :
                        LET fetched == [page \in 1..total_pages |->
                                           fetch_orders_batch(store, page,
                                                              attempts[page], 1)]
                            failed == \E page \in 1..total_pages :
                                         RequestFailed(attempts[page])
                            orders == Collect(fetched, order)
                        IN /\ order_cache' = set_cached_data(order_cache, cache_key,
                                                             orders, s_now, failed)
                           /\ s_call' = [NoSessionCall EXCEPT
                                            !.served = "api", !.key = cache_key,
                                            !.at = s_now, !.store = store,
                                            !.requests = <<1>> \o
                                                [page \in 1..total_pages |-> page],
                                            !.failed = failed, !.cached = TRUE,
                                            !.result = orders]

\* Time passes between two calls.
SessionTick ==
    /\ UNCHANGED notSession
    /\ \E t \in SessionTimes : t > s_now /\ s_now' = t
    /\ UNCHANGED <<order_cache, s_call>>

SessionInit ==
    /\ s_now = 0
    /\ order_cache = EmptyMap
    /\ s_call = NoSessionCall

SessionNext == SessionGetOrders \/ SessionTick

\* ------------------------------------------------------------------------
\* Order monitoring: NotificationHandler.monitor_orders and check_new_orders
\* over the session-cached get_orders
\* ------------------------------------------------------------------------

\* The cache key of the date range monitor_orders asks for (today).
MonitorRange == 1

\* The status of a new order.
NewOrderStatuses == {"on-hold", "processing"}

\* get_orders (utils client, lines 88-158) on a store holding fewer than
\* per_page orders, every request succeeding: the cached list if there is a
\* fresh non-empty one, else the orders of the store, which are cached unless
\* the first batch is empty.
monitor_get_orders(cache, store_orders, at) ==
    LET cached_orders == get_cached_data(cache, MonitorRange, at)
    IN  IF Truthy(cached_orders)
        THEN [orders |-> cached_orders.data, cache |-> cache]
        ELSE IF store_orders = <<>>
        THEN [orders |-> <<>>, cache |-> cache]
        ELSE [orders |-> store_orders,
              cache |-> set_cached_data(cache, MonitorRange, store_orders, at, FALSE)]

\* Lines 66-68 of check_new_orders.
already_notified(order, notified) == order.id \in notified

\* new_orders of check_new_orders (lines 61-82), as the set of their ids.
new_orders(orders, notified, last_check) ==
    {orders[i].id : i \in {j \in 1..Len(orders) :
                              /\ ~already_notified(orders[j], notified)
                              /\ orders[j].status = "on-hold"
                              /\ orders[j].date_created > last_check}}

\* A customer places an order.
OrderCreated ==
    /\ Len(n_store) < MaxNewOrders
    /\ n_now' = n_now + 1
    /\ \E status \in NewOrderStatuses :
        n_store' = Append(n_store, [id |-> Len(n_store) + 1, status |-> status,
                                    date_created |-> n_now + 1])
    /\ UNCHANGED <<n_cache, n_pc, n_orders, notifications, last_check_time, n_returned>>
    /\ UNCHANGED notMonitor

\* monitor_orders up to the return of get_orders (lines 116-124).
MonitorFetch ==
    /\ n_pc = "idle"
    /\ Len(n_returned) < MaxMonitorCalls
    /\ n_now' = n_now + 1
    /\ LET got == monitor_get_orders(n_cache, n_store, n_now + 1)
       IN /\ n_orders' = got.orders
          /\ n_cache' = got.cache
    /\ n_pc' = "fetched"
    /\ UNCHANGED <<n_store, notifications, last_check_time, n_returned>>
    /\ UNCHANGED notMonitor

\* check_new_orders (lines 56-85) and the rest of monitor_orders.
MonitorCheck ==
    /\ n_pc = "fetched"
    /\ n_now' = n_now + 1
    /\ LET found == new_orders(n_orders, notifications, last_check_time)
       IN /\ notifications' = notifications \cup found
          /\ n_returned' = Append(n_returned, found)
    /\ last_check_time' = n_now + 1
    /\ n_pc' = "idle"
    /\ n_orders' = <<>>
    /\ UNCHANGED <<n_store, n_cache>>
    /\ UNCHANGED notMonitor

\* Time passes between two reruns of the dashboard script.
TimePasses ==
    /\ n_now < MaxHours * cache_timeout
    /\ n_now' = n_now + cache_timeout
    /\ UNCHANGED <<n_store, n_cache, n_pc, n_orders, notifications, last_check_time,
                   n_returned>>
    /\ UNCHANGED notMonitor

\* NotificationHandler.__init__ (lines 9-12) at time 0, on an empty store.
MonitorInit ==
    /\ n_now = 0
    /\ n_store = <<>>
    /\ n_cache = EmptyMap
    /\ n_pc = "idle"
    /\ n_orders = <<>>
    /\ notifications = {}
    /\ last_check_time = 0
    /\ n_returned = <<>>

MonitorNext == OrderCreated \/ MonitorFetch \/ MonitorCheck \/ TimePasses

Init == StockInit /\ OrdersInit /\ MetricsInit /\ ResolveInit /\ CacInit
        /\ AdapterInit /\ LockInit /\ PoolInit /\ SessionInit /\ MonitorInit

StockNext == StockCall \/ Tick

ChunksNext == StockCallWithHistory \/ Tick

OrdersNext == GetOrdersStart \/ PageCompletes \/ GetOrdersReturn \/ GetOrdersDone

SpecStock == Init /\ [][StockNext]_vars

SpecChunks == Init /\ [][ChunksNext]_vars

SpecOrders == Init /\ [][OrdersNext]_vars

SpecMetrics == Init /\ [][MetricsNext]_vars

SpecResolve == Init /\ [][ResolveNext]_vars

SpecCac == Init /\ [][CacNext]_vars

SpecAdapters == Init /\ [][AdapterNext]_vars

SpecLock == Init /\ [][LockNext]_vars

SpecPools == Init /\ [][PoolNext]_vars

SpecSession == Init /\ [][SessionNext]_vars

SpecMonitor == Init /\ [][MonitorNext]_vars

\* ------------------------------------------------------------------------
\* Claims on the stock cache (checked under SpecStock)
\* ------------------------------------------------------------------------

\* The product p was answered by the last call from the cache, without a
\* request to the API.
AnsweredFromCache(p) ==
    /\ last_call.served # "none"
    /\ p \in last_call.ids
    /\ p \notin last_call.requested

\* C1: every quantity a non-forced call returns from the stock cache without
\* an API request was obtained from the API less than cache_duration (5
\* minutes) before that call.
C1_ServedWithinTTL ==
    \A p \in Products :
        (AnsweredFromCache(p) /\ p \in DOMAIN stock_cache) =>
            last_call.at - fetched_at[p] < cache_duration

\* C2: for a product fetched at t0, a non-forced call at t0+299 returns the
\* same quantity without an API request, and a non-forced call at t0+301
\* issues a new API request for the product. (The quantity fetched at t0 is
\* the product's cache entry as long as the entry exists; where a force
\* refresh has dropped the entry the formula asks nothing of the quantity, so
\* it asks no more than the claim does.)
C2_TTLBoundary ==
    \A p \in Products :
        (/\ last_call.served # "none"
         /\ ~last_call.force
         /\ p \in last_call.ids
         /\ p \in DOMAIN fetched_at) =>
            /\ (last_call.at - fetched_at[p] = 299) =>
                    /\ last_call.requested = {}
                    /\ p \in DOMAIN stock_cache =>
                           last_call.result[p] = stock_cache[p]
            /\ (last_call.at - fetched_at[p] = 301) =>
                    p \in last_call.requested

\* C3: in a non-forced call only ids with a valid cache entry are answered
\* from the cache; every requested id without a cache entry is requested from
\* the API in that call.
C3_UncachedIdsAreRequested ==
    \A p \in Products :
        (AnsweredFromCache(p) /\ ~last_call.force) =>
            /\ p \in DOMAIN stock_cache
            /\ last_call.result[p] = stock_cache[p]
            /\ last_call.at - fetched_at[p] < cache_duration

\* C4: a call with force_refresh clears the whole cache before fetching: no
\* entry cached before the call survives it, every returned quantity comes
\* from a request of that call, and afterwards the cache holds entries only
\* for the ids resolved during that call.
C4_ForceRefreshReplacesCache ==
    (last_call.served # "none" /\ last_call.force) =>
        /\ last_call.served = "api"
        /\ last_call.requested = last_call.ids
        /\ DOMAIN last_call.result \subseteq last_call.ids
        /\ DOMAIN stock_cache = DOMAIN last_call.result
        /\ \A p \in DOMAIN stock_cache :
               /\ stock_cache[p] = last_call.result[p]
               /\ fetched_at[p] = last_call.at

\* A forced call that dropped a cached entry it did not resolve again, and
\* that resolved another product.
C4_Witness ==
    /\ last_call.force
    /\ last_call.cleared \ (DOMAIN last_call.result) # {}
    /\ DOMAIN last_call.result # {}


\* C26: on every path of get_stock_quantities_batch the returned map has an
\* entry for every requested id, and after a fetch every id of the returned map
\* has a cache entry holding the returned quantity.
C26_ResultCoversRequestedIds ==
    last_call.served # "none" =>
        /\ DOMAIN last_call.result = last_call.ids
        /\ last_call.served = "api" =>
             \A p \in DOMAIN last_call.result :
                /\ p \in DOMAIN stock_cache
                /\ stock_cache[p] = last_call.result[p]

\* C27 (checked under SpecChunks): the products of a chunk whose request
\* failed are not treated as cached:
\* a later non-forced call that asks for one of them is not answered from the
\* cache without a request, whatever the time since the failed fetch.
C27_FailedChunkIsRefetched ==
    (last_call.served = "cache" /\ ~last_call.force) =>
        last_call.ids \cap failed_ids = {}

\* ------------------------------------------------------------------------
\* Claims on get_orders (checked under SpecOrders)
\* ------------------------------------------------------------------------
Range(seq) == {seq[i] : i \in 1..Len(seq)}

\* The orders (by position in the result set) of the given pages.
OrdersOfPages(store, pages) ==
    UNION {Range(PageData(store, page_num)) : page_num \in pages}

\* Every element of the set occurs in the sequence exactly once, and nothing else.
HoldsEachOnce(seq, set) ==
    /\ Len(seq) = Cardinality(set)
    /\ Range(seq) = set

SucceededPages == {page_num \in DOMAIN o_outcome : o_outcome[page_num] = "ok"}

AllPages == 1..o_store.total_pages

\* C5: when the store reports N pages and every page request succeeds,
\* get_orders returns each order of every page exactly once, whatever the
\* order in which the requests for pages 2..N complete.
C5_AllPagesExactlyOnce ==
    (/\ o_pc = "done"
     /\ o_store.total_pages >= 1
     /\ \A page_num \in DOMAIN o_outcome : o_outcome[page_num] = "ok") =>
        /\ o_return.kind = "list"
        /\ HoldsEachOnce(o_return.orders, OrdersOfPages(o_store, AllPages))

\* 4 pages of 100 and one of 37 returned as 437 orders, with page 2 not the
\* first of the concurrent requests to complete.
C5_Witness ==
    /\ o_pc = "done"
    /\ o_store = [total_pages |-> 5, last |-> 37]
    /\ SucceededPages = 1..5
    /\ Len(o_return.orders) = 437
    /\ o_return.orders[per_page + 1] # per_page + 1

\* C6: if the first page succeeds and any of the requests for pages 2..N
\* fail, get_orders returns normally, and its result is exactly the orders of
\* page 1 and of every page whose request succeeded.
C6_FailedPagesAreEmpty ==
    (o_pc = "done" /\ o_outcome[1] = "ok") =>
        /\ o_return.kind = "list"
        /\ HoldsEachOnce(o_return.orders, OrdersOfPages(o_store, SucceededPages))

\* A call in which a page failed by exception, another by a non-list payload,
\* and a page other than the first succeeded and is in the result.
C6_Witness ==
    /\ o_pc = "done"
    /\ o_outcome[1] = "ok"
    /\ \E p, q \in DOMAIN o_outcome :
           o_outcome[p] = "exception" /\ o_outcome[q] = "nonlist"
    /\ \E p \in SucceededPages \ {1} : TRUE
    /\ Len(o_return.orders) > per_page

\* What get_orders returns for a date range that holds no orders.
EmptyRangeReturn == ListReturn(PageData([total_pages |-> 0, last |-> 0], 1))

\* C7: when the first page request fails, the failure reaches the caller as
\* an outcome that differs from a successful fetch of an empty date range.
C7_FirstPageFailureIsDistinct ==
    (o_pc = "done" /\ o_outcome[1] # "ok") => o_return # EmptyRangeReturn

\* The filter of a request: its parameters but the page number.
Filter(params) ==
    [after |-> params.after, before |-> params.before,
     per_page |-> params.per_page, status |-> params.status]

\* C25: all page requests of one get_orders call, the first one included,
\* carry the same filter parameters: after, before, per_page and the status
\* filter "any".
C25_SameFilterOnEveryPage ==
    \A page_num \in DOMAIN o_params :
        /\ Filter(o_params[page_num]) = Filter(o_params[1])
        /\ o_params[page_num].status = "any"

\* ------------------------------------------------------------------------
\* Claims on normalisation and calculate_metrics
\* ------------------------------------------------------------------------

\* The raw orders that normalisation keeps: those with a date that it parses.
NormalizedIndices ==
    {i \in 1..Len(raw_orders) :
        raw_orders[i].date_created # NoDate /\ raw_orders[i].total.ok}

RawSubtotal(order) ==
    SeqSum([j \in 1..Len(order.line_items) |-> order.line_items[j].subtotal.value])

RawCost(order) ==
    SeqSum([j \in 1..Len(order.line_items) |->
              ItemCost(order.line_items[j]) * order.line_items[j].quantity])

RECURSIVE SumOver(_, _)
SumOver(indices, f) ==
    IF indices = {} THEN 0
    ELSE LET i == CHOOSE x \in indices : TRUE
         IN  f[i] + SumOver(indices \ {i}, f)

\* C8: when raw orders are normalised and aggregated, order_count is the
\* number of normalised orders whose API status is not "pending"; no pending
\* order is counted.
C8_PendingNeverCounted ==
    (m_pc = "metrics" /\ metrics.kind = "value") =>
        metrics.value.order_count =
            Cardinality({i \in NormalizedIndices : raw_orders[i].status # "pending"})

\* C9: every normalised order record carries shipping_base, shipping_tax and
\* shipping_total with shipping_total = shipping_base + shipping_tax, and the
\* aggregated shipping_total is the sum of shipping_base plus the sum of
\* shipping_tax over all orders.
C9_ShippingTotalIsBasePlusTax ==
    /\ m_pc \in {"normalized", "metrics"} =>
         \A i \in 1..Len(df) :
            /\ {"shipping_base", "shipping_tax", "shipping_total"} \subseteq DOMAIN df[i]
            /\ df[i].shipping_total = df[i].shipping_base + df[i].shipping_tax
    /\ (m_pc = "metrics" /\ df # <<>>) =>
         /\ metrics.kind = "value"
         /\ metrics.value.shipping_total =
              ColumnSum(df, "shipping_base") + ColumnSum(df, "shipping_tax")

\* C10: for every non-empty order set calculate_metrics returns
\* total_revenue_excl_vat equal to the sum of the orders' subtotals, whatever
\* their shipping and tax, and total_profit equal to that sum minus the sum of
\* the line-item costs.
C10_RevenueIsSubtotalSum ==
    (m_pc = "metrics" /\ df # <<>>) =>
        /\ metrics.kind = "value"
        /\ metrics.value.total_revenue_excl_vat =
             SumOver(NormalizedIndices, [i \in NormalizedIndices |-> RawSubtotal(raw_orders[i])])
        /\ metrics.value.total_profit =
             SumOver(NormalizedIndices, [i \in NormalizedIndices |-> RawSubtotal(raw_orders[i])])
               - SumOver(NormalizedIndices, [i \in NormalizedIndices |-> RawCost(raw_orders[i])])

\* ------------------------------------------------------------------------
\* Claims on the stock resolution of a batch (checked under SpecResolve)
\* ------------------------------------------------------------------------

\* The sum of a list of stock values in which null counts as 0.
RECURSIVE NullAsZeroSum(_)
NullAsZeroSum(stocks) ==
    IF stocks = <<>> THEN 0
    ELSE (IF Head(stocks) = None THEN 0 ELSE Head(stocks)) + NullAsZeroSum(Tail(stocks))

\* C11: a product of type "variable" without own stock_quantity resolves to
\* the sum of its variations' stock_quantity with null counted as 0, and to 0
\* when the variation list is empty.
C11_VariableIsVariationSum ==
    \A pid \in DOMAIN r_variations :
        (/\ r_products[pid].type = "variable"
         /\ r_products[pid].stock_quantity = None
         /\ r_variations[pid].kind = "list")
        => /\ pid \in DOMAIN batch_results
           /\ batch_results[pid] = NullAsZeroSum(r_variations[pid].stocks)
           /\ r_variations[pid].stocks = <<>> => batch_results[pid] = 0

\* C11 witness: the batch has returned and a variable product with variation
\* stocks [5, null, 3] resolved to 8.
C11_Witness ==
    /\ r_pc = "done"
    /\ \E pid \in DOMAIN r_variations :
        /\ r_products[pid].type = "variable"
        /\ r_variations[pid].kind = "list"
        /\ r_variations[pid].stocks = <<5, None, 3>>
        /\ batch_results[pid] = 8

\* A product that is itself a variation: it has a parent and is not variable.
IsVariationProduct(pid) ==
    r_products[pid].parent_id # 0 /\ r_products[pid].type # "variable"

\* C12: a product with a parent_id that is not of type "variable" resolves to
\* its own stock_quantity when that is present, and otherwise to the parent's
\* stock_quantity, a null parent stock giving 0.
C12_VariationOwnElseParent ==
    \A pid \in DOMAIN r_products :
        IsVariationProduct(pid) =>
            /\ r_products[pid].stock_quantity # None
                 => (pid \in DOMAIN batch_results
                     /\ batch_results[pid] = r_products[pid].stock_quantity)
            /\ pid \in DOMAIN r_variation_resp =>
                 LET own == r_variation_resp[pid]
                     parent == r_parent_resp[pid]
                 IN  /\ (own.kind = "dict" /\ own.stock # None) => batch_results[pid] = own.stock
                     /\ (own.kind # "raises" /\ own.stock = None /\ parent.kind = "dict")
                          => batch_results[pid] = IF parent.stock = None THEN 0 ELSE parent.stock

\* C12 witness: the batch has returned and a variation with null own stock
\* and parent stock 12 resolved to 12.
C12_Witness ==
    /\ r_pc = "done"
    /\ \E pid \in DOMAIN r_variation_resp :
        /\ IsVariationProduct(pid)
        /\ r_variation_resp[pid].kind = "dict"
        /\ r_variation_resp[pid].stock = None
        /\ r_parent_resp[pid].kind = "dict"
        /\ r_parent_resp[pid].stock = 12
        /\ batch_results[pid] = 12

\* The products one of whose lookups raised.
LookupRaised ==
    {pid \in DOMAIN r_variations : r_variations[pid].kind = "raises"}
        \cup {pid \in DOMAIN r_variation_resp :
                \/ r_variation_resp[pid].kind = "raises"
                \/ r_parent_resp[pid].kind = "raises"}

\* What a product resolves to from its own record and its own lookups alone.
OwnResolution(pid) ==
    LET product == r_products[pid]
    IN  IF product.stock_quantity # None THEN product.stock_quantity
        ELSE IF product.type = "variable"
             THEN (IF r_variations[pid].kind = "list"
                   THEN NullAsZeroSum(r_variations[pid].stocks) ELSE 0)
        ELSE IF product.parent_id # 0
             THEN (IF r_variation_resp[pid].kind = "dict" /\ r_variation_resp[pid].stock # None
                   THEN r_variation_resp[pid].stock
                   ELSE IF r_parent_resp[pid].kind = "dict" /\ r_parent_resp[pid].stock # None
                        THEN r_parent_resp[pid].stock ELSE 0)
        ELSE 0

\* C13: when the variation lookup or the parent lookup of a product raises,
\* that product resolves to 0, the batch still returns a quantity for every
\* product of the response, and the quantities of the other products are what
\* their own records and lookups give.
C13_LookupFailureIsLocal ==
    /\ \A pid \in LookupRaised : pid \in DOMAIN batch_results /\ batch_results[pid] = 0
    /\ r_pc = "done" => DOMAIN batch_results = DOMAIN r_products
    /\ LookupRaised # {} =>
         \A q \in (DOMAIN batch_results) \ LookupRaised : batch_results[q] = OwnResolution(q)

\* C13 witness: the batch has returned, a lookup of one product raised and
\* that product has quantity 0, while another product of the same batch,
\* collected later through a lookup of its own, has its non-zero quantity.
C13_Witness ==
    /\ r_pc = "done"
    /\ \E pid \in LookupRaised : \E q \in (DOMAIN r_parent_resp) \ LookupRaised :
        /\ pid \in DOMAIN r_variations
        /\ batch_results[pid] = 0
        /\ batch_results[q] = 12

\* ------------------------------------------------------------------------
\* Claims on calculate_cac_metrics (checked under SpecCac)
\* ------------------------------------------------------------------------

\* The billing emails of the window and the number of orders of each; a null
\* is no email, the empty address of a missing key is a value like any other.
WindowEmails ==
    {c_df[i].email : i \in {j \in 1..Len(c_df) : c_df[j].has_billing}} \ {NullEmail}
OrdersOf(email) ==
    Cardinality({i \in 1..Len(c_df) : c_df[i].has_billing /\ c_df[i].email = email})

\* C14: calculate_cac_metrics groups the orders of the window by billing
\* email; new_customers_count is the number of emails with exactly one order,
\* repeat_customers_count the number with more than one, and their sum is the
\* number of distinct emails.
C14_NewAndRepeatPartitionEmails ==
    c_pc = "done" =>
        /\ cac_metrics.new_customers_count =
             Cardinality({e \in WindowEmails : OrdersOf(e) = 1})
        /\ cac_metrics.repeat_customers_count =
             Cardinality({e \in WindowEmails : OrdersOf(e) > 1})
        /\ cac_metrics.new_customers_count + cac_metrics.repeat_customers_count =
             Cardinality(WindowEmails)

\* C14 witness: a window with one email ordering twice and another ordering
\* once has been segmented.
C14_Witness ==
    /\ c_pc = "done"
    /\ \E e1, e2 \in WindowEmails : OrdersOf(e1) = 2 /\ OrdersOf(e2) = 1
    /\ cac_metrics.new_customers_count = 1
    /\ cac_metrics.repeat_customers_count = 1

\* The provider was not requested, raised, or reported no data.
ProviderUnavailable ==
    \/ ~c_call.use_ga_data
    \/ c_call.provider.construct \in {"raises", "not_reached"}
    \/ c_call.provider.spend \in {"raises", "no_data"}
    \/ c_call.provider.campaign = "raises"

\* C15: whenever the ad-spend provider is not requested, raises, or returns
\* has_data = false, calculate_cac_metrics returns using_ga_data = false and
\* total_ad_spend = number of orders * fixed cost per order.
C15_FallbackIsOrdersTimesCost ==
    (c_pc = "done" /\ ProviderUnavailable) =>
        /\ cac_metrics.using_ga_data = FALSE
        /\ cac_metrics.total_ad_spend = Len(c_df) * c_call.ad_cost_per_order

\* The provider step ended without ad-spend data: the provider could not be
\* constructed, or calculate_total_ad_spend raised or returned has_data = false.
ProviderFailed ==
    /\ c_call.use_ga_data
    /\ \/ c_call.provider.construct = "raises"
       \/ c_call.provider.spend \in {"raises", "no_data"}

\* C24: when calculate_cac_metrics falls back to the fixed cost because the
\* provider raised or returned has_data = false with an error_message, the
\* dictionary it returns carries an error_message.
C24_FallbackCarriesErrorMessage ==
    (c_pc = "done" /\ ProviderFailed) => "error_message" \in DOMAIN cac_metrics

FailureMode(call) == ~a_ready \/ call.environment # "rows"

\* C16: calculate_total_ad_spend of both adapters never raises to its caller;
\* for every failure mode it returns has_data = false together with an
\* error_message.
C16_FailureCarriesErrorMessage ==
    \A i \in 1..Len(a_log) :
        /\ ~a_log[i].result.raised
        /\ FailureMode(a_log[i]) =>
             /\ a_log[i].result.has_data = FALSE
             /\ a_log[i].result.error_message # NoErrorMessage

\* C21: the readiness of an adapter is decided at construction only and no
\* calculate_total_ad_spend call changes it; after a failed query on a ready
\* adapter the next query sends a fresh request to the API; while the adapter
\* is not ready every query returns has_data = false.
C21_ReadinessFixedAtConstruction ==
    /\ a_kind # "none" => a_ready = a_built
    /\ \A i \in 1..(Len(a_log) - 1) :
         (/\ a_built
          /\ ~a_log[i].result.has_data
          /\ a_log[i + 1].environment \in {"api_error", "no_rows", "rows"})
         => a_log[i + 1].requested
    /\ ~a_built => \A i \in 1..Len(a_log) : ~a_log[i].result.has_data

\* C21 witness: on a ready adapter a query failed on an API error and the
\* next query sent a request and got data.
C21_Witness ==
    /\ a_built
    /\ Len(a_log) >= 2
    /\ a_log[1].environment = "api_error"
    /\ ~a_log[1].result.has_data
    /\ a_log[2].requested
    /\ a_log[2].result.has_data

\* ------------------------------------------------------------------------
\* Further claims on normalisation and calculate_metrics (SpecMetrics)
\* ------------------------------------------------------------------------

\* The fields of the snapshot returned for a non-empty order set (lines 73-86).
SnapshotFields ==
    {"total_revenue_incl_vat", "total_revenue_excl_vat", "average_revenue",
     "shipping_total", "shipping_costs", "total_tax", "total_profit",
     "profit_margin", "total_cogs", "order_count"}

IsZero(x) == x = 0 \/ x = <<0, 1>>

\* C17: calculate_metrics on an empty order set does not raise and returns a
\* snapshot with every field of a non-empty snapshot, each 0.
C17_EmptySnapshotHasEveryField ==
    (m_pc = "metrics" /\ df = <<>>) =>
        /\ metrics.kind = "value"
        /\ DOMAIN metrics.value = SnapshotFields
        /\ \A field \in DOMAIN metrics.value : IsZero(metrics.value[field])

\* The raw orders of the batch that have a date.
DatedIndices == {i \in 1..Len(raw_orders) : raw_orders[i].date_created # NoDate}

IsoWeek(day) == (day + 6) \div 7

\* The bucket the period names for a date: the calendar day, the ISO week or
\* the month.
CalendarBucket(date, period) ==
    IF period = "weekly" THEN IsoWeek(date[1])
    ELSE IF period = "monthly" THEN Month(date[1])
    ELSE date[1]

\* C23: calculate_metrics puts all orders of one calendar day (daily), one ISO
\* week (weekly) or one year-month (monthly) in one bucket, and average_revenue
\* is the mean over these buckets of the bucket's summed order total: the sum
\* of all order totals divided by the number of such buckets.
C23_AverageOverCalendarBuckets ==
    (m_pc = "metrics" /\ metrics.kind = "value" /\ df # <<>>)
    => metrics.value.average_revenue =
         <<ColumnSum(df, "total"),
           Cardinality({CalendarBucket(df[i].date, m_period) : i \in 1..Len(df)})>>

\* ------------------------------------------------------------------------
\* Claims on concurrency (checked under SpecLock and SpecPools)
\* ------------------------------------------------------------------------

\* C19: every read of and write to a stock cache happens while the single
\* cache lock is held, the lock is never held while an HTTP request is in
\* progress, and no two threads modify the stock cache at the same time.
C19_CacheAccessUnderLock ==
    /\ \A w \in Workers : w_pc[w] \in {"read", "write"} => cache_lock = w
    /\ pi_pc \in {"check", "write"} => pi_holds_lock
    /\ \A w \in Workers : w_pc[w] = "http" => cache_lock # w
    /\ pi_pc = "http" => ~pi_holds_lock
    /\ Cardinality({w \in Workers : w_pc[w] = "write"}) <= 1

\* C20: at every moment of a get_orders call at most 5 page requests are in
\* flight, and at every moment of a get_stock_quantities_batch call at most 3
\* product-chunk requests are in flight, whatever the number of pages or chunks.
C20_PoolsAreBounded ==
    /\ PageRequestsInFlight <= 5
    /\ ChunkRequestsInFlight <= 3

\* C20 witness: 5 page requests are in flight while a further page waits, and
\* 3 chunk requests are in flight while a further chunk waits.
C20_Witness ==
    /\ po_pc = "pool"
    /\ PageRequestsInFlight = 5
    /\ po_started < po_tasks
    /\ ps_pc = "pool"
    /\ ChunkRequestsInFlight = 3
    /\ ps_started < ps_tasks

\* ------------------------------------------------------------------------
\* Claims on the session-cached get_orders (checked under SpecSession)
\* ------------------------------------------------------------------------

\* How often a page number occurs among the requests of a call.
TimesRequested(requests, page) ==
    Cardinality({i \in 1..Len(requests) : requests[i] = page})

\* C22: a get_orders call that reaches the store and gets its first page
\* requests exactly the pages 1..N, N being the number of pages the store
\* holds for the date range: page 1 once or twice, every other page up to N
\* once (also when the range holds more than 200 orders), and no further page.
C22_EveryStorePageRequested ==
    (s_call.served = "api" /\ s_call.result # <<>> /\ ~s_call.failed)
    => /\ Range(s_call.requests) = 1..s_call.store.total_pages
       /\ TimesRequested(s_call.requests, 1) \in {1, 2}
       /\ \A page \in 2..s_call.store.total_pages :
            TimesRequested(s_call.requests, page) = 1

\* C30: get_orders stores a result in the order cache only when every page
\* request of the call succeeded, so no later call is answered with a list that
\* was assembled while a page request failed; and a cached list is returned
\* only while it is younger than cache_timeout.
C30_OnlyCompleteFreshListsServed ==
    /\ (s_call.served = "api" /\ s_call.cached) => ~s_call.failed
    /\ s_call.served = "cache" =>
         /\ ~s_call.entry_failed
         /\ s_call.at - s_call.entry_timestamp < cache_timeout

\* ------------------------------------------------------------------------
\* Claims on order monitoring (checked under SpecMonitor)
\* ------------------------------------------------------------------------

\* The ids the check_new_orders calls so far have returned.
ReturnedIds == UNION {n_returned[i] : i \in 1..Len(n_returned)}

\* C29: under repeated monitor_orders calls every on-hold order created after
\* monitoring started is returned by some check_new_orders call, and no order
\* id is returned twice.  check_new_orders returns only orders created after
\* last_check_time, which never decreases: an order that is to be returned in
\* some call has been returned by the time last_check_time reaches its
\* creation time.
C29_EveryOnHoldOrderNotifiedOnce ==
    /\ \A i \in 1..Len(n_store) :
         (n_store[i].status = "on-hold" /\ n_store[i].date_created <= last_check_time)
         => n_store[i].id \in ReturnedIds
    /\ \A i, j \in 1..Len(n_returned) : i # j => n_returned[i] \cap n_returned[j] = {}

====
